---- MODULE Spec2Model ----
(***************************************************************************)
(* FreeString (src/src/lib.rs): an owned, NUL-terminated byte buffer that  *)
(* is allocated with malloc and released with free when it is dropped.     *)
(*                                                                         *)
(* The model holds the C heap, the live FreeString values, the build's     *)
(* overflow-check setting and a record of the last call and its result.    *)
(* Indices into byte sequences are 0-based as in the source; TLA+          *)
(* sequences are 1-based, so b[i+1] is the byte at index i.                *)
(***************************************************************************)
EXTENDS Integers, Sequences, FiniteSets, Bags

\* ---------------------------------------------------------------- bounds
\* Longest slice a safe caller can hold (stands for isize::MAX bytes).
MaxLen == 3
\* Number of heap addresses malloc can hand out.
MaxAddr == 1
\* Number of FreeString values that can be alive at once.
MaxInst == 2

IsizeMax == MaxLen
\* usize::MAX == 2 * isize::MAX + 1
UsizeMax == 2 * IsizeMax + 1
UsizeMod == UsizeMax + 1

Addr == 1..MaxAddr

\* the null pointer
NULL == 0
\* Option::None
None == -1
\* a byte malloc returned and nobody wrote yet
Uninit == -2

\* ------------------------------------------------------------ byte slices
\* A byte is 0 (NUL) or not; the code compares bytes with 0 and otherwise
\* only copies them. The byte at index i of an input is 0 or i + 1, so that
\* a byte that lands at another offset shows.
SlicesOfLen(k) == {b \in [1..k -> 0..k] : \A i \in 1..k : b[i] \in {0, i}}

\* every &[u8] a safe caller can pass
Slices == UNION {SlicesOfLen(k) : k \in 0..MaxLen}

\* the slice of length n without a NUL byte
NulFree(n) == [i \in 1..n |-> i]

\* slices handed to the unsafe from_bytes_unchecked, whose stated
\* precondition is only "no byte can be null": the longest one whose length
\* plus one still fits the machine word, and the one of length usize::MAX
UncheckedSlices == {NulFree(n) : n \in (UsizeMax - 1)..UsizeMax}

\* C strings foreign code allocates (without the terminator)
MaxForeignLen == 1
CStrings == {NulFree(n) : n \in 0..MaxForeignLen}

RECURSIVE memchrFrom(_, _, _)
memchrFrom(needle, haystack, i) ==
    IF i >= Len(haystack) THEN None
    ELSE IF haystack[i + 1] = needle THEN i
    ELSE memchrFrom(needle, haystack, i + 1)

\* a scan that reports the last occurrence instead of the first
RECURSIVE memrchrFrom(_, _, _)
memrchrFrom(needle, haystack, i) ==
    IF i < 0 THEN None
    ELSE IF haystack[i + 1] = needle THEN i
    ELSE memrchrFrom(needle, haystack, i - 1)

memrchr(needle, haystack) == memrchrFrom(needle, haystack, Len(haystack) - 1)

\* memchr::memchr: index of the first occurrence of needle, or None
memchr(needle, haystack) == memchrFrom(needle, haystack, 0)

\* usize::checked_add: None on overflow of the machine word
checked_add(a, b) == IF a + b > UsizeMax THEN None ELSE a + b

\* a + b as the build computes it once overflow checks are off
wrapping_add(a, b) == (a + b) % UsizeMod

\* ------------------------------------------------------------------ heap
FreeCell == [state |-> "free", size |-> 0, bytes |-> <<>>, foreign |-> FALSE, leaked |-> FALSE]

\* libc::malloc(n): the null pointer, or an address that is not in use,
\* with n bytes nobody wrote yet
malloc(h, n) ==
    {[buf |-> NULL, heap |-> h]} \cup
    {[buf |-> a,
      heap |-> [h EXCEPT ![a] = [state |-> "live", size |-> n,
                                 bytes |-> [i \in 1..n |-> Uninit],
                                 foreign |-> FALSE, leaked |-> FALSE]]]
       : a \in {x \in Addr : h[x].state # "live"}}

\* a drop that forgets to release the buffer
free_nothing(h, p) == h

\* libc::free(p): the cell goes back to the allocator
free(h, p) == [h EXCEPT ![p] = FreeCell]

\* a copy that stops one byte early
copy_one_byte_short(h, src, dest, n) ==
    [h EXCEPT ![dest].bytes = [i \in 1..Len(@) |-> IF i <= n - 1 THEN src[i] ELSE @[i]]]

\* ptr::copy_nonoverlapping(src, dest, n)
copy_nonoverlapping(h, src, dest, n) ==
    [h EXCEPT ![dest].bytes = [i \in 1..Len(@) |-> IF i <= n THEN src[i] ELSE @[i]]]

\* a constructor that leaves the terminator out
put_nul_skipped(h, p, at) == h

\* slice[at] = 0
put_nul(h, p, at) ==
    [h EXCEPT ![p].bytes = [i \in 1..Len(@) |-> IF i = at + 1 THEN 0 ELSE @[i]]]

RECURSIVE strlenFrom(_, _)
strlenFrom(bytes, i) ==
    IF i >= Len(bytes) THEN i
    ELSE IF bytes[i + 1] = 0 THEN i
    ELSE strlenFrom(bytes, i + 1)

\* libc::strlen(p): number of bytes before the first NUL
strlen(h, p) == strlenFrom(h[p].bytes, 0)

\* ------------------------------------------------------------ FreeString
\* struct FreeString { inner, len }, with bookkeeping the program does not
\* store: which constructor made the value (origin), the length of the
\* slice it was made from (src_len), and whether its buffer has been handed
\* to free through another value holding the same pointer (dangling).
\* FreeString::from_raw_parts: stores the pointer and the length as given
from_raw_parts(ptr, len) == [inner |-> ptr, len |-> len]

\* a length that leaves the NUL byte out
from_raw_without_nul(h, ptr) == from_raw_parts(ptr, strlen(h, ptr))

\* FreeString::from_raw: strlen(ptr) + 1, including the NUL byte
from_raw(h, ptr) == from_raw_parts(ptr, strlen(h, ptr) + 1)

\* FreeString::as_raw
as_raw(self) == self.inner

\* FreeString::as_slice: len bytes starting at inner
as_slice(h, self) == [i \in 1..self.len |-> h[self.inner].bytes[i]]

\* Deref::deref: a CStr over the very bytes of as_slice, not validated again
deref(h, self) == as_slice(h, self)

\* results of a constructor: Ok(FreeString), Err(..) or a panic
Outcome(res, err, idx, fs, h, calls) ==
    [res |-> res, err |-> err, idx |-> idx, inner |-> fs.inner, len |-> fs.len,
     heap |-> h, mallocs |-> calls]

NoFs == from_raw_parts(NULL, 0)

VARIABLES
    heap,            \* the C heap: one cell per address
    inst,            \* the live FreeString values (a bag: two values can be equal)
    overflow_checks, \* whether the build panics on overflow of + (debug) or wraps (release)
    ret,             \* the last call: its name, argument and result
    aliased          \* from_raw / from_raw_parts was given a pointer a live value owned

vars == <<heap, inst, overflow_checks, ret, aliased>>

\* FreeString::from_bytes_unchecked, in the order of the source: the size
\* handed to malloc is computed with a plain +, the null check follows, and
\* only then checked_add
from_bytes_unchecked(h, bytes) ==
    LET size == Len(bytes)
        wraps == size + 1 > UsizeMax
        request == wrapping_add(size, 1)
        after(m) ==
            IF m.buf = NULL
            THEN Outcome("Panic", "Out of memory", None, NoFs, m.heap, <<request>>)
            ELSE LET total_len == checked_add(Len(bytes), 1) IN
                 IF total_len = None
                 THEN Outcome("Panic", "Overflow while allocating", None, NoFs,
                              [m.heap EXCEPT ![m.buf].leaked = TRUE], <<request>>)
                 ELSE Outcome("Ok", "", None, from_raw_parts(m.buf, total_len),
                              put_nul(copy_nonoverlapping(m.heap, bytes, m.buf, Len(bytes)),
                                      m.buf, total_len - 1),
                              <<request>>)
    IN  IF wraps /\ overflow_checks
        THEN {Outcome("Panic", "attempt to add with overflow", None, NoFs, h, <<>>)}
        ELSE {after(m) : m \in malloc(h, request)}

\* a copy that appends a terminator to bytes that already end with one
from_bytes_with_nul_appending(h, bytes) == from_bytes_unchecked(h, bytes)

\* FreeString::from_bytes_with_nul_unchecked
from_bytes_with_nul_unchecked(h, bytes) ==
    LET size == Len(bytes)
        after(m) ==
            IF m.buf = NULL
            THEN Outcome("Panic", "Out of memory", None, NoFs, m.heap, <<size>>)
            ELSE Outcome("Ok", "", None, from_raw_parts(m.buf, Len(bytes)),
                         copy_nonoverlapping(m.heap, bytes, m.buf, Len(bytes)),
                         <<size>>)
    IN  {after(m) : m \in malloc(h, size)}

\* a constructor that allocates before it validates
new_allocates_first(h, bytes) ==
    LET i == memchr(0, bytes) IN
    IF i # None
    THEN {Outcome("Err", "NulError", i, NoFs, m.heap, <<Len(bytes) + 1>>)
            : m \in malloc(h, Len(bytes) + 1)}
    ELSE from_bytes_unchecked(h, bytes)

\* FreeString::new
new(h, bytes) ==
    LET i == memchr(0, bytes) IN
    IF i # None
    THEN {Outcome("Err", "NulError", i, NoFs, h, <<>>)}
    ELSE from_bytes_unchecked(h, bytes)

\* a validation that looks at the last byte only
from_bytes_with_nul_last_byte_only(h, bytes) ==
    IF Len(bytes) >= 1 /\ bytes[Len(bytes)] = 0
    THEN from_bytes_with_nul_unchecked(h, bytes)
    ELSE {Outcome("Err", "NotNulTerminated", None, NoFs, h, <<>>)}

\* a validation that terminates what has no NUL byte instead of refusing it
from_bytes_with_nul_lenient(h, bytes) ==
    LET nul_pos == memchr(0, bytes) IN
    IF nul_pos # None
    THEN IF nul_pos + 1 # Len(bytes)
         THEN {Outcome("Err", "InteriorNul", nul_pos, NoFs, h, <<>>)}
         ELSE from_bytes_with_nul_unchecked(h, bytes)
    ELSE from_bytes_unchecked(h, bytes)

\* FreeString::from_bytes_with_nul
from_bytes_with_nul(h, bytes) ==
    LET nul_pos == memchr(0, bytes) IN
    IF nul_pos # None
    THEN IF nul_pos + 1 # Len(bytes)
         THEN {Outcome("Err", "InteriorNul", nul_pos, NoFs, h, <<>>)}
         ELSE from_bytes_with_nul_unchecked(h, bytes)
    ELSE {Outcome("Err", "NotNulTerminated", None, NoFs, h, <<>>)}

\* ----------------------------------------------------------- the program
Values == BagToSet(inst)

Copies(B, S) == BagCardinality([x \in S |-> B[x]])

\* the live values whose buffer is the one at p
Owners(B, p) == {x \in BagToSet(B) : ~x.dangling /\ x.inner = p}

\* "a valid malloc-allocated pointer to a null-terminated C string": a buffer
\* foreign code allocated and still holds, or the pointer as_raw gives for a
\* value whose buffer has not been freed
ValidPtrs ==
    {a \in Addr : heap[a].state = "live" /\ (heap[a].foreign \/ Owners(inst, a) # {})}

\* ub: "double free" when the call handed free a pointer that had been freed,
\* "use after free" when it read a buffer that had been freed
Call(op, arg, ptr, view, o, ub) ==
    [op |-> op, arg |-> arg, res |-> o.res, err |-> o.err, idx |-> o.idx,
     ptr |-> ptr, inner |-> o.inner, len |-> o.len, view |-> view,
     mallocs |-> o.mallocs, ub |-> ub]

Done(fs, h) == Outcome("Ok", "", None, fs, h, <<>>)

\* no call is in progress: the caller has taken the last result
Idle == Call("idle", <<>>, NULL, <<>>, Done(NoFs, heap), "none")

Tagged(fs, origin, src_len) ==
    [inner |-> fs.inner, len |-> fs.len, origin |-> origin, src_len |-> src_len,
     dangling |-> FALSE]

Init ==
    /\ heap = [a \in Addr |-> FreeCell]
    /\ inst = EmptyBag
    /\ overflow_checks \in BOOLEAN
    /\ ret = Idle
    /\ aliased = FALSE

\* what a call of a copying constructor leaves behind
Construct(op, bytes, outcomes) ==
    /\ ret.op = "idle"
    /\ BagCardinality(inst) < MaxInst
    /\ \E o \in outcomes :
         /\ heap' = o.heap
         /\ inst' = IF o.res = "Ok"
                    THEN inst (+) SetToBag({Tagged(o, op, Len(bytes))})
                    ELSE inst
         /\ ret' = Call(op, bytes, NULL, <<>>, o, "none")
    /\ UNCHANGED <<overflow_checks, aliased>>

New(bytes) == Construct("new", bytes, new(heap, bytes))

FromBytesWithNul(bytes) == Construct("from_bytes_with_nul", bytes, from_bytes_with_nul(heap, bytes))

FromBytesUnchecked(bytes) == Construct("from_bytes_unchecked", bytes, from_bytes_unchecked(heap, bytes))

\* what a call of a pointer-taking constructor leaves behind: no copy, the
\* value owns the very buffer it was given
Adopt(op, ptr, fs) ==
    /\ ret.op = "idle"
    /\ BagCardinality(inst) < MaxInst
    /\ ptr \in ValidPtrs
    /\ inst' = inst (+) SetToBag({Tagged(fs, "raw", fs.len - 1)})
    /\ heap' = [heap EXCEPT ![ptr].foreign = FALSE]
    /\ aliased' = (aliased \/ Owners(inst, ptr) # {})
    /\ ret' = Call(op, <<>>, ptr, <<>>, Done(fs, heap'), "none")
    /\ UNCHANGED overflow_checks

FromRaw(ptr) == Adopt("from_raw", ptr, from_raw(heap, ptr))

\* the caller promises len is the length of the string including the NUL
FromRawParts(ptr, len) ==
    /\ ptr \in ValidPtrs
    /\ len = strlen(heap, ptr) + 1
    /\ Adopt("from_raw_parts", ptr, from_raw_parts(ptr, len))

AsRaw(self) ==
    /\ ret.op = "idle"
    /\ ret' = Call("as_raw", <<>>, as_raw(self), <<>>, Done(self, heap), "none")
    /\ UNCHANGED <<heap, inst, overflow_checks, aliased>>

\* whether len bytes can be read at inner at all
Readable(self) == Len(heap[self.inner].bytes) >= self.len

\* what a read of len bytes at inner can give: the buffer's bytes, or, once
\* the buffer has been freed, whatever is at that address now
Reads(self, read) ==
    IF ~self.dangling THEN {read}
    ELSE {[i \in 1..self.len |-> c] : c \in {0, 1, Uninit}}
         \cup IF Readable(self) THEN {read} ELSE {}

View(op, self, read) ==
    /\ ret.op = "idle"
    /\ \E v \in Reads(self, read) :
         ret' = Call(op, <<>>, self.inner, v, Done(self, heap),
                     IF self.dangling THEN "use after free" ELSE "none")
    /\ UNCHANGED <<heap, inst, overflow_checks, aliased>>

AsSlice(self) ==
    View("as_slice", self, IF Readable(self) THEN as_slice(heap, self) ELSE <<>>)

Deref(self) ==
    View("deref", self, IF Readable(self) THEN deref(heap, self) ELSE <<>>)

\* every value whose buffer is at p is left with a freed buffer
Dangle(x, p) == IF x.inner = p THEN [x EXCEPT !.dangling = TRUE] ELSE x

Mark(B, p) ==
    LET S == BagToSet(B)
    IN  [y \in {Dangle(x, p) : x \in S} |-> Copies(B, {x \in S : Dangle(x, p) = y})]

\* Drop::drop: free(self.inner)
Drop(self) ==
    /\ ret.op = "idle"
    /\ heap' = free(heap, self.inner)
    /\ inst' = Mark(inst (-) SetToBag({self}), self.inner)
    /\ ret' = Call("drop", <<>>, self.inner, <<>>, Done(self, heap'),
                   IF self.dangling THEN "double free" ELSE "none")
    /\ UNCHANGED <<overflow_checks, aliased>>

\* foreign code allocates a C string with malloc, to hand over later
ForeignMalloc(str) ==
    /\ ret.op = "idle"
    /\ \E m \in malloc(heap, Len(str) + 1) :
         /\ m.buf # NULL
         /\ heap' = [put_nul(copy_nonoverlapping(m.heap, str, m.buf, Len(str)), m.buf, Len(str))
                       EXCEPT ![m.buf].foreign = TRUE]
         /\ ret' = Call("foreign_malloc", str, m.buf, <<>>, Done(NoFs, heap'), "none")
    /\ UNCHANGED <<inst, overflow_checks, aliased>>

\* foreign code frees a buffer it still holds
ForeignFree(ptr) ==
    /\ ret.op = "idle"
    /\ heap[ptr].state = "live" /\ heap[ptr].foreign
    /\ heap' = free(heap, ptr)
    /\ ret' = Call("foreign_free", <<>>, ptr, <<>>, Done(NoFs, heap'), "none")
    /\ UNCHANGED <<inst, overflow_checks, aliased>>

\* the caller takes the result of the call; the next call can start
Return ==
    /\ ret.op # "idle"
    /\ ret' = Idle
    /\ UNCHANGED <<heap, inst, overflow_checks, aliased>>

Next ==
    \/ \E b \in Slices : New(b)
    \/ \E b \in Slices : FromBytesWithNul(b)
    \/ \E b \in UncheckedSlices : FromBytesUnchecked(b)
    \/ \E p \in Addr : FromRaw(p)
    \/ \E p \in Addr, n \in 1..UsizeMax : FromRawParts(p, n)
    \/ \E x \in Values : AsRaw(x)
    \/ \E x \in Values : AsSlice(x)
    \/ \E x \in Values : Deref(x)
    \/ \E x \in Values : Drop(x)
    \/ \E c \in CStrings : ForeignMalloc(c)
    \/ \E p \in Addr : ForeignFree(p)
    \/ Return

Spec == Init /\ [][Next]_vars

\* ------------------------------------------------------------ properties
HasNul(b) == \E i \in 1..Len(b) : b[i] = 0

\* index (0-based) of the first NUL byte of b
FirstNul(b) == CHOOSE i \in 0..(Len(b) - 1) : b[i + 1] = 0 /\ \A j \in 0..(i - 1) : b[j + 1] # 0

\* b ends with a NUL byte and holds no other
NulTerminated(b) == Len(b) >= 1 /\ b[Len(b)] = 0 /\ ~HasNul(SubSeq(b, 1, Len(b) - 1))

\* the byte at offset off of the buffer at p, if the buffer holds one
ByteAt(p, off) ==
    IF p \in Addr /\ off >= 0 /\ off < Len(heap[p].bytes) THEN heap[p].bytes[off + 1] ELSE Uninit

\* the value the last call returned
Returned == from_raw_parts(ret.inner, ret.len)

NoValue == ret.inner = NULL /\ ret.len = 0

\* C1, as stated: for every b without a NUL byte, new(b) succeeds, and
\* as_slice of the result has length len(b) + 1 and is b followed by one NUL.
C1_NewAlwaysSucceeds ==
    (ret.op = "new" /\ ~HasNul(ret.arg)) =>
        /\ ret.res = "Ok"
        /\ Len(as_slice(heap, Returned)) = Len(ret.arg) + 1
        /\ as_slice(heap, Returned) = ret.arg \o <<0>>

\* C1, amended: for every b without a NUL byte, new(b) returns no error. It
\* panics with "Out of memory" when malloc returns the null pointer, having
\* asked for len(b) + 1 bytes; otherwise as_slice of the result has length
\* len(b) + 1 and is b followed by one NUL (for b = [] the buffer is the one
\* byte 0).
C1_NewAppendsNul ==
    (ret.op = "new" /\ ~HasNul(ret.arg)) =>
        /\ ret.mallocs = <<Len(ret.arg) + 1>>
        /\ \/ ret.res = "Panic" /\ ret.err = "Out of memory" /\ NoValue
           \/ /\ ret.res = "Ok"
              /\ Len(as_slice(heap, Returned)) = Len(ret.arg) + 1
              /\ as_slice(heap, Returned) = ret.arg \o <<0>>
              /\ heap[ret.inner].bytes = ret.arg \o <<0>>

C1_Witness == ret.op = "new" /\ ret.res = "Ok" /\ Len(ret.arg) = MaxLen

\* C2: for every b with a NUL byte, new(b) fails with NulError(i), i the
\* index of the first NUL byte of b, and returns no value.
C2_NewReportsFirstNul ==
    (ret.op = "new" /\ HasNul(ret.arg)) =>
        /\ ret.res = "Err" /\ ret.err = "NulError"
        /\ ret.idx = FirstNul(ret.arg)
        /\ NoValue

C2_Witness ==
    /\ ret.op = "new" /\ ret.res = "Err" /\ ret.idx = 1
    /\ Len(ret.arg) = 3 /\ ret.arg[3] = 0

\* C3, as stated: for every b that ends with a NUL byte and holds no other,
\* from_bytes_with_nul(b) succeeds, asks malloc for exactly len(b) bytes, and
\* as_slice of the result is b.
C3_WithNulAlwaysSucceeds ==
    (ret.op = "from_bytes_with_nul" /\ NulTerminated(ret.arg)) =>
        /\ ret.res = "Ok"
        /\ ret.mallocs = <<Len(ret.arg)>>
        /\ as_slice(heap, Returned) = ret.arg

\* C3, amended: for every such b, from_bytes_with_nul(b) returns no error and
\* asks malloc for exactly len(b) bytes. It panics with "Out of memory" when
\* malloc returns the null pointer; otherwise as_slice of the result is b, no
\* byte appended.
C3_WithNulCopiesVerbatim ==
    (ret.op = "from_bytes_with_nul" /\ NulTerminated(ret.arg)) =>
        /\ ret.mallocs = <<Len(ret.arg)>>
        /\ \/ ret.res = "Panic" /\ ret.err = "Out of memory" /\ NoValue
           \/ /\ ret.res = "Ok"
              /\ ret.len = Len(ret.arg)
              /\ heap[ret.inner].size = Len(ret.arg)
              /\ as_slice(heap, Returned) = ret.arg

C3_Witness == ret.op = "from_bytes_with_nul" /\ ret.res = "Ok" /\ Len(ret.arg) = MaxLen

\* C4, as stated: for every b and every index i with b[i] = 0 and
\* i + 1 # len(b), from_bytes_with_nul(b) fails with InteriorNul(i).
C4_EveryInteriorNulReported ==
    ret.op = "from_bytes_with_nul" =>
        \A i \in 0..(Len(ret.arg) - 1) :
            (ret.arg[i + 1] = 0 /\ i + 1 # Len(ret.arg)) =>
                ret.res = "Err" /\ ret.err = "InteriorNul" /\ ret.idx = i /\ NoValue

\* C4, amended: for every b whose first NUL byte is at index i with
\* i + 1 # len(b), from_bytes_with_nul(b) fails with InteriorNul(i) and
\* returns no value.
C4_FirstInteriorNulReported ==
    (ret.op = "from_bytes_with_nul" /\ HasNul(ret.arg)
        /\ FirstNul(ret.arg) + 1 # Len(ret.arg)) =>
            /\ ret.res = "Err" /\ ret.err = "InteriorNul"
            /\ ret.idx = FirstNul(ret.arg)
            /\ NoValue

C4_Witness ==
    /\ ret.op = "from_bytes_with_nul" /\ ret.err = "InteriorNul" /\ ret.idx = 0
    /\ Len(ret.arg) = 3 /\ ret.arg[2] = 0

\* C5: for every b without a NUL byte, the empty one included,
\* from_bytes_with_nul(b) fails with NotNulTerminated and returns no value.
C5_NoNulNotTerminated ==
    (ret.op = "from_bytes_with_nul" /\ ~HasNul(ret.arg)) =>
        /\ ret.res = "Err" /\ ret.err = "NotNulTerminated"
        /\ NoValue

C5_Witness ==
    ret.op = "from_bytes_with_nul" /\ ret.err = "NotNulTerminated" /\ Len(ret.arg) = MaxLen

Checked(x) == x.origin \in {"new", "from_bytes_with_nul"}

\* C6, as stated: across every sequence of the public operations no pointer
\* is freed twice and no accessor runs on a buffer that has been freed.
C6_NeverFreedTwice == ret.ub = "none"

\* C6, amended: as long as from_raw and from_raw_parts are never given a
\* pointer that a live value already owns, every buffer a value owns is
\* allocated and has exactly that one owner, drop hands the value's pointer
\* to free (the buffer is free afterwards), no pointer is freed twice and no
\* accessor runs on a freed buffer.
C6_SoleOwnerFreedOnce ==
    ~aliased =>
        /\ ret.ub = "none"
        /\ \A x \in Values : ~x.dangling /\ heap[x.inner].state = "live"
        /\ \A a \in Addr :
             (heap[a].state = "live" /\ ~heap[a].foreign /\ ~heap[a].leaked) =>
                 Copies(inst, Owners(inst, a)) = 1
        /\ ret.op = "drop" => (heap[ret.ptr].state = "free" /\ Owners(inst, ret.ptr) = {})

C6_Witness ==
    /\ ~aliased /\ ret.op = "drop" /\ ret.len = MaxLen + 1
    /\ heap[ret.ptr].state = "free"

\* C7: when len(b) is the largest size the machine word holds, the
\* terminator-appending constructor fails with a panic and malloc is not
\* called at all before it, in particular not with the wrapped size.
C7_NoWrappedRequest ==
    (ret.op \in {"new", "from_bytes_unchecked"} /\ Len(ret.arg) = UsizeMax) =>
        ret.res = "Panic" /\ ret.mallocs = <<>>

\* C8, as stated: every value made by new or from_bytes_with_nul has, in
\* every state until it is dropped, len >= 1, a NUL byte at offset len - 1,
\* no NUL byte before it, and len equal to the size asked of malloc.
C8_CheckedValuesWellFormed ==
    \A x \in Values :
        Checked(x) =>
            /\ x.len >= 1
            /\ ByteAt(x.inner, x.len - 1) = 0
            /\ \A off \in 0..(x.len - 2) : ByteAt(x.inner, off) \notin {0, Uninit}
            /\ x.len = heap[x.inner].size

\* C8, amended: every value made by new or from_bytes_with_nul has, in every
\* state until its buffer is freed (by dropping it, or by dropping another
\* value that from_raw or from_raw_parts made an owner of the same pointer),
\* an allocated buffer, len >= 1, a NUL byte at offset len - 1, no NUL byte
\* before it, and len equal to the size asked of malloc.
C8_CheckedValuesWellFormedWhileOwned ==
    \A x \in Values :
        (Checked(x) /\ ~x.dangling) =>
            /\ heap[x.inner].state = "live"
            /\ x.len >= 1
            /\ ByteAt(x.inner, x.len - 1) = 0
            /\ \A off \in 0..(x.len - 2) : ByteAt(x.inner, off) \notin {0, Uninit}
            /\ x.len = heap[x.inner].size

C8_Witness ==
    /\ ret.op = "deref"
    /\ \E x \in Values : x.origin = "from_bytes_with_nul" /\ ~x.dangling /\ x.len = MaxLen

\* C9: in new and from_bytes_with_nul a call that returns a validation error
\* has not called malloc, leaves the heap and the live values as they were
\* and returns no value; malloc is called only for an input that passed
\* validation.
C9_Step ==
    (ret.op = "idle" /\ ret'.op \in {"new", "from_bytes_with_nul"}) =>
        /\ ret'.res = "Err" =>
             ret'.mallocs = <<>> /\ heap' = heap /\ inst' = inst /\ ret'.inner = NULL
        /\ ret'.mallocs # <<>> =>
             IF ret'.op = "new" THEN ~HasNul(ret'.arg) ELSE NulTerminated(ret'.arg)

C9_ValidationBeforeAllocation == [][C9_Step]_vars

C9_Witness ==
    /\ ret.op = "from_bytes_with_nul" /\ ret.res = "Err" /\ ret.err = "InteriorNul"
    /\ \E a \in Addr : heap[a].state = "free"

\* C10: from_raw on the pointer as_raw gives for a value built by new(b)
\* stores the same pointer and the same length as that value, len(b) + 1.
C10_FromRawSameLength ==
    ret.op = "from_raw" =>
        \A x \in Values :
            (x.origin = "new" /\ ~x.dangling /\ as_raw(x) = ret.ptr) =>
                /\ ret.inner = as_raw(x)
                /\ ret.len = x.len
                /\ ret.len = x.src_len + 1

C10_Witness ==
    /\ ret.op = "from_raw"
    /\ \E x \in Values : x.origin = "new" /\ ~x.dangling /\ as_raw(x) = ret.ptr /\ x.src_len = MaxLen

====
